---- MODULE Spec2Model ----
(***************************************************************************)
(* A model of scrapyd_api/wrapper.py: the ScrapydAPI facade, its endpoint  *)
(* map, the delegate HTTP client it calls and its nine public operations.  *)
(*                                                                         *)
(* Python objects that are shared by reference are kept in heaps:          *)
(*   dicts   - the endpoint dictionaries; dicts[1] is the module-level     *)
(*             constants.DEFAULT_ENDPOINTS object                          *)
(*   clients - the delegate objects: the auth attribute, and ncalls, the   *)
(*             number of get/post calls received during the latest step    *)
(*             (the caller clears its record before every facade call)     *)
(*   apis    - the ScrapydAPI instances, in order of construction; each    *)
(*             holds its target, the id of its client and the address of   *)
(*             its endpoint dictionary                                     *)
(* made[i] is the record of how apis[i] was made: the constructor's        *)
(* arguments, the instance as the constructor returned it, and its         *)
(* endpoint map as the caller left it before the first call.  last is      *)
(* the record of the latest step: what was called, with which arguments,   *)
(* what the delegate answered, the delegate calls made and how it ended.   *)
(*                                                                         *)
(* Two specifications: Spec constructs instances and lets the caller       *)
(* change their endpoint maps; SpecCalls starts from one constructed       *)
(* instance and calls its public operations.                               *)
(***************************************************************************)
EXTENDS Integers, Sequences, FiniteSets, TLC

VARIABLES dicts, clients, apis, made, last

vars == <<dicts, clients, apis, made, last>>

----------------------------------------------------------------------------
(* Bounds of the model.                                                    *)

\* instances constructed in one behaviour of Spec
MaxInstances == 2

----------------------------------------------------------------------------
(* Python values.  Every value has the same shape, so that values of       *)
(* different Python types can be compared.                                 *)

EmptyDict == [k \in {} |-> 0]

NoneV == [kind |-> "none", s |-> "", b |-> FALSE, items |-> <<>>, d |-> EmptyDict]

StrV(x) == [kind |-> "str", s |-> x, b |-> FALSE, items |-> <<>>, d |-> EmptyDict]

BoolV(x) == [kind |-> "bool", s |-> "", b |-> x, items |-> <<>>, d |-> EmptyDict]

\* a list of strings
ListV(q) == [kind |-> "list", s |-> "", b |-> FALSE, items |-> q, d |-> EmptyDict]

\* a dictionary: a function from its keys to values
DictV(f) == [kind |-> "dict", s |-> "", b |-> FALSE, items |-> <<>>, d |-> f]

\* how a call ends: it returns a value or raises an exception
NoExc == [type |-> "", arg |-> <<>>]

Return(v) == [kind |-> "return", val |-> v, exc |-> NoExc]

Raise(e) == [kind |-> "raise", val |-> NoneV, exc |-> e]

\* obj[key] in Python: a KeyError for a dictionary without the key, a
\* TypeError for a value that is no dictionary
KeyError(key) == [type |-> "KeyError", arg |-> <<key>>]

TypeError == [type |-> "TypeError", arg |-> <<>>]

GetItem(obj, key) ==
    IF obj.kind = "dict"
    THEN IF key \in DOMAIN obj.d THEN Return(obj.d[key]) ELSE Raise(KeyError(key))
    ELSE Raise(TypeError)

\* a dictionary literal or d.update(e): the entries of e win on a collision
Update(d, e) ==
    [k \in DOMAIN d \cup DOMAIN e |-> IF k \in DOMAIN e THEN e[k] ELSE d[k]]

\* del d[k]
Remove(d, key) == [k \in DOMAIN d \ {key} |-> d[k]]

Range(q) == {q[n] : n \in DOMAIN q}

\* bool(v), as `if v:` takes it
Truthy(v) ==
    CASE v.kind = "none" -> FALSE
      [] v.kind = "bool" -> v.b
      [] v.kind = "str" -> v.s # ""
      [] v.kind = "list" -> v.items # <<>>
      [] v.kind = "dict" -> DOMAIN v.d # {}

\* str(v), as '{1}' of str.format writes a value
Str(v) ==
    CASE v.kind = "none" -> "None"
      [] v.kind = "bool" -> IF v.b THEN "True" ELSE "False"
      [] v.kind = "str" -> v.s

----------------------------------------------------------------------------
(* constants.py: the endpoint names and the default endpoint set.          *)

ADD_VERSION_ENDPOINT == "add_version"
CANCEL_ENDPOINT == "cancel"
DELETE_PROJECT_ENDPOINT == "delete_project"
DELETE_VERSION_ENDPOINT == "delete_version"
LIST_JOBS_ENDPOINT == "list_jobs"
LIST_PROJECTS_ENDPOINT == "list_projects"
LIST_SPIDERS_ENDPOINT == "list_spiders"
LIST_VERSIONS_ENDPOINT == "list_versions"
SCHEDULE_ENDPOINT == "schedule"

\* A URL reference: origin is scheme and authority ("" for a relative
\* reference), rooted says that the path starts with "/", segs are the path's
\* segments ("/api/" has the segments "api" and "").
Rel(q) == [origin |-> "", rooted |-> FALSE, segs |-> q]

Abs(o, q) == [origin |-> o, rooted |-> q # <<>>, segs |-> q]

DEFAULT_ENDPOINTS ==
    (ADD_VERSION_ENDPOINT :> Rel(<<"addversion.json">>)) @@
    (CANCEL_ENDPOINT :> Rel(<<"cancel.json">>)) @@
    (DELETE_PROJECT_ENDPOINT :> Rel(<<"delproject.json">>)) @@
    (DELETE_VERSION_ENDPOINT :> Rel(<<"delversion.json">>)) @@
    (LIST_JOBS_ENDPOINT :> Rel(<<"listjobs.json">>)) @@
    (LIST_PROJECTS_ENDPOINT :> Rel(<<"listprojects.json">>)) @@
    (LIST_SPIDERS_ENDPOINT :> Rel(<<"listspiders.json">>)) @@
    (LIST_VERSIONS_ENDPOINT :> Rel(<<"listversions.json">>)) @@
    (SCHEDULE_ENDPOINT :> Rel(<<"schedule.json">>))

----------------------------------------------------------------------------
(* compat.py: urljoin and iteritems.                                       *)

ButLast(q) == IF q = <<>> THEN <<>> ELSE SubSeq(q, 1, Len(q) - 1)

\* urljoin(base, url): a reference with its own scheme stands for itself, an
\* empty one for the base, a rooted path replaces the base's path, any other
\* path replaces the last segment of the base's path.
urljoin(base, url) ==
    IF url.origin # "" THEN url
    ELSE IF url.segs = <<>> THEN base
    ELSE IF url.rooted THEN [origin |-> base.origin, rooted |-> TRUE, segs |-> url.segs]
    ELSE [origin |-> base.origin, rooted |-> TRUE,
          segs |-> ButLast(base.segs) \o url.segs]

\* iteritems(d) yields every entry of d once, in an order the dictionary
\* chooses: the orders are the enumerations of d's keys without repetition.
Orders(d) ==
    {q \in [1..Cardinality(DOMAIN d) -> DOMAIN d] : Range(q) = DOMAIN d}

----------------------------------------------------------------------------
(* client.py: the default delegate, and the calls a delegate receives.     *)

\* Client(): a new delegate, no credentials set, no call received
Client == [auth |-> NoneV, ncalls |-> 0]

\* client.get(url, params=params) and client.post(url, data=data,
\* files=files) as the delegate sees them; an argument that is not passed is
\* the empty dictionary
get(client, url, params) ==
    [client |-> client, verb |-> "get", url |-> url, params |-> params,
     data |-> EmptyDict, files |-> EmptyDict]

post(client, url, data, files) ==
    [client |-> client, verb |-> "post", url |-> url, params |-> EmptyDict,
     data |-> data, files |-> files]

----------------------------------------------------------------------------
(* wrapper.py: ScrapydAPI.                                                 *)

\* a faulty variant of deepcopy: no copy is made, the result is the object
\* itself
deepcopy_alias(heap, addr) == [heap |-> heap, addr |-> addr]

\* deepcopy(obj) of the dictionary at address addr of the heap: a new
\* dictionary object with the same entries (the entries are strings)
deepcopy(heap, addr) == [heap |-> Append(heap, heap[addr]), addr |-> Len(heap) + 1]

\* a faulty variant of __init__: the defaults are applied on top of the
\* overrides
init_defaults_win(cs, ds, target, auth, endpoints, client) ==
    LET eps == IF endpoints.kind = "none" THEN EmptyDict ELSE endpoints.d
        cs1 == IF client = 0 THEN Append(cs, [Client EXCEPT !.auth = auth]) ELSE cs
        c == IF client = 0 THEN Len(cs) + 1 ELSE client
        copy == deepcopy(ds, 1)
    IN [self |-> [target |-> target, client |-> c, endpoints |-> copy.addr],
        clients |-> cs1,
        dicts |-> [copy.heap EXCEPT ![copy.addr] = Update(eps, @)]]

\* a faulty variant of __init__: auth is set on an injected client too
init_auth_always(cs, ds, target, auth, endpoints, client) ==
    LET eps == IF endpoints.kind = "none" THEN EmptyDict ELSE endpoints.d
        cs1 == IF client = 0 THEN Append(cs, [Client EXCEPT !.auth = auth])
               ELSE [cs EXCEPT ![client].auth = auth]
        c == IF client = 0 THEN Len(cs) + 1 ELSE client
        copy == deepcopy(ds, 1)
    IN [self |-> [target |-> target, client |-> c, endpoints |-> copy.addr],
        clients |-> cs1,
        dicts |-> [copy.heap EXCEPT ![copy.addr] = Update(@, eps)]]

\* ScrapydAPI(target, auth, endpoints, client) with the delegates cs and the
\* dictionaries ds on the heap: client = 0 stands for client=None, endpoints
\* = NoneV for endpoints=None.  The result is the new instance and the two
\* heaps as the constructor leaves them.
__init__(cs, ds, target, auth, endpoints, client) ==
    LET eps == IF endpoints.kind = "none" THEN EmptyDict ELSE endpoints.d
        cs1 == IF client = 0 THEN Append(cs, [Client EXCEPT !.auth = auth]) ELSE cs
        c == IF client = 0 THEN Len(cs) + 1 ELSE client
        copy == deepcopy(ds, 1)
    IN [self |-> [target |-> target, client |-> c, endpoints |-> copy.addr],
        clients |-> cs1,
        dicts |-> [copy.heap EXCEPT ![copy.addr] = Update(@, eps)]]

\* ValueError('Unknown endpoint `{0}`'.format(endpoint)): the message is kept
\* as its pieces, the fixed text and the endpoint name that fills {0} (the
\* two backquotes around the name are not written)
ValueError(endpoint) ==
    [type |-> "ValueError", arg |-> <<"Unknown endpoint ", endpoint>>]

\* a faulty variant of _build_url: an unknown name falls back to the
\* default path
build_url_default_path(self, endpoint) ==
    IF endpoint \in DOMAIN self.endpoints
    THEN Return(urljoin(self.target, self.endpoints[endpoint]))
    ELSE Return(urljoin(self.target, DEFAULT_ENDPOINTS[endpoint]))

\* self._build_url(endpoint).  In the operations self is the instance as the
\* method sees it: target, client and, under endpoints, the entries of its
\* endpoint dictionary.
_build_url(self, endpoint) ==
    IF endpoint \in DOMAIN self.endpoints
    THEN Return(urljoin(self.target, self.endpoints[endpoint]))
    ELSE Raise(ValueError(endpoint))

\* What an operation did: the delegate calls it made, in order, and how it
\* ended.
Done(calls, out) == [calls |-> calls, out |-> out]

add_version(self, project, version, egg, resp) ==
    LET url == _build_url(self, ADD_VERSION_ENDPOINT) IN
    IF url.kind = "raise" THEN Done(<<>>, url)
    ELSE LET data == ("project" :> project) @@ ("version" :> version)
             files == ("egg" :> egg)
             call == post(self.client, url.val, data, files)
         IN IF resp.kind = "raise" THEN Done(<<call>>, resp)
            ELSE Done(<<call>>, GetItem(resp.val, "spiders"))

\* a faulty variant of cancel: any non-empty prevstate counts as running
cancel_truthy(self, project, job, resp) ==
    LET url == _build_url(self, CANCEL_ENDPOINT) IN
    IF url.kind = "raise" THEN Done(<<>>, url)
    ELSE LET data == ("project" :> project) @@ ("job" :> job)
             call == post(self.client, url.val, data, EmptyDict)
             prevstate == GetItem(resp.val, "prevstate")
         IN IF resp.kind = "raise" THEN Done(<<call>>, resp)
            ELSE IF prevstate.kind = "raise" THEN Done(<<call>>, prevstate)
            ELSE Done(<<call>>, Return(BoolV(Truthy(prevstate.val))))

cancel(self, project, job, resp) ==
    LET url == _build_url(self, CANCEL_ENDPOINT) IN
    IF url.kind = "raise" THEN Done(<<>>, url)
    ELSE LET data == ("project" :> project) @@ ("job" :> job)
             call == post(self.client, url.val, data, EmptyDict)
             prevstate == GetItem(resp.val, "prevstate")
         IN IF resp.kind = "raise" THEN Done(<<call>>, resp)
            ELSE IF prevstate.kind = "raise" THEN Done(<<call>>, prevstate)
            ELSE Done(<<call>>, Return(BoolV(prevstate.val = StrV("running"))))

\* a faulty variant of delete_project: a failed post is tried once more
delete_project_retry(self, project, resp) ==
    LET url == _build_url(self, DELETE_PROJECT_ENDPOINT) IN
    IF url.kind = "raise" THEN Done(<<>>, url)
    ELSE LET data == ("project" :> project)
             call == post(self.client, url.val, data, EmptyDict)
         IN IF resp.kind = "raise" THEN Done(<<call, call>>, resp)
            ELSE Done(<<call>>, Return(BoolV(TRUE)))

delete_project(self, project, resp) ==
    LET url == _build_url(self, DELETE_PROJECT_ENDPOINT) IN
    IF url.kind = "raise" THEN Done(<<>>, url)
    ELSE LET data == ("project" :> project)
             call == post(self.client, url.val, data, EmptyDict)
         IN IF resp.kind = "raise" THEN Done(<<call>>, resp)
            ELSE Done(<<call>>, Return(BoolV(TRUE)))

delete_version(self, project, version, resp) ==
    LET url == _build_url(self, DELETE_VERSION_ENDPOINT) IN
    IF url.kind = "raise" THEN Done(<<>>, url)
    ELSE LET data == ("project" :> project) @@ ("version" :> version)
             call == post(self.client, url.val, data, EmptyDict)
         IN IF resp.kind = "raise" THEN Done(<<call>>, resp)
            ELSE Done(<<call>>, Return(BoolV(TRUE)))

list_jobs(self, project, resp) ==
    LET url == _build_url(self, LIST_JOBS_ENDPOINT) IN
    IF url.kind = "raise" THEN Done(<<>>, url)
    ELSE LET params == ("project" :> project)
             call == get(self.client, url.val, params)
         IN IF resp.kind = "raise" THEN Done(<<call>>, resp)
            ELSE Done(<<call>>, Return(resp.val))

list_projects(self, resp) ==
    LET url == _build_url(self, LIST_PROJECTS_ENDPOINT) IN
    IF url.kind = "raise" THEN Done(<<>>, url)
    ELSE LET call == get(self.client, url.val, EmptyDict)
         IN IF resp.kind = "raise" THEN Done(<<call>>, resp)
            ELSE Done(<<call>>, GetItem(resp.val, "projects"))

\* a faulty variant of list_spiders: a missing field reads as no spiders
list_spiders_default(self, project, resp) ==
    LET url == _build_url(self, LIST_SPIDERS_ENDPOINT) IN
    IF url.kind = "raise" THEN Done(<<>>, url)
    ELSE LET params == ("project" :> project)
             call == get(self.client, url.val, params)
             spiders == GetItem(resp.val, "spiders")
         IN IF resp.kind = "raise" THEN Done(<<call>>, resp)
            ELSE IF spiders.kind = "raise" THEN Done(<<call>>, Return(ListV(<<>>)))
            ELSE Done(<<call>>, spiders)

list_spiders(self, project, resp) ==
    LET url == _build_url(self, LIST_SPIDERS_ENDPOINT) IN
    IF url.kind = "raise" THEN Done(<<>>, url)
    ELSE LET params == ("project" :> project)
             call == get(self.client, url.val, params)
         IN IF resp.kind = "raise" THEN Done(<<call>>, resp)
            ELSE Done(<<call>>, GetItem(resp.val, "spiders"))

list_versions(self, project, resp) ==
    LET url == _build_url(self, LIST_VERSIONS_ENDPOINT) IN
    IF url.kind = "raise" THEN Done(<<>>, url)
    ELSE LET params == ("project" :> project)
             call == get(self.client, url.val, params)
         IN IF resp.kind = "raise" THEN Done(<<call>>, resp)
            ELSE Done(<<call>>, GetItem(resp.val, "versions"))

\* a faulty variant of format: the value is left out
format_name_only(setting_name, value) == setting_name \o "="

\* '{0}={1}'.format(setting_name, value)
format(setting_name, value) == setting_name \o "=" \o Str(value)

\* schedule(project, spider, settings, **kwargs); order is the order in
\* which iteritems(settings) yields the entries
schedule(self, project, spider, settings, kwargs, order, resp) ==
    LET url == _build_url(self, SCHEDULE_ENDPOINT) IN
    IF url.kind = "raise" THEN Done(<<>>, url)
    ELSE LET data0 == ("project" :> project) @@ ("spider" :> spider)
             data1 == Update(data0, kwargs)
             setting_params ==
                 [n \in 1..Len(order) |-> format(order[n], settings.d[order[n]])]
             data == IF Truthy(settings)
                     THEN Update(data1, "setting" :> ListV(setting_params))
                     ELSE data1
             call == post(self.client, url.val, data, EmptyDict)
         IN IF resp.kind = "raise" THEN Done(<<call>>, resp)
            ELSE Done(<<call>>, GetItem(resp.val, "jobid"))

\* getattr(api, op)(**args): the call of the operation named op
Perform(op, self, args, resp) ==
    CASE op = "add_version" ->
            add_version(self, args.project, args.version, args.egg, resp)
      [] op = "cancel" -> cancel(self, args.project, args.job, resp)
      [] op = "delete_project" -> delete_project(self, args.project, resp)
      [] op = "delete_version" ->
            delete_version(self, args.project, args.version, resp)
      [] op = "list_jobs" -> list_jobs(self, args.project, resp)
      [] op = "list_projects" -> list_projects(self, resp)
      [] op = "list_spiders" -> list_spiders(self, args.project, resp)
      [] op = "list_versions" -> list_versions(self, args.project, resp)
      [] op = "schedule" ->
            schedule(self, args.project, args.spider, args.settings, args.kwargs,
                     args.order, resp)

----------------------------------------------------------------------------
(* The inputs the callers and the delegates choose from.                   *)

\* 'http://localhost:6800' is the constructor's default target
DefaultTarget == Abs("http://localhost:6800", <<>>)

Targets == {DefaultTarget, Abs("http://host:6800", <<"api", "">>)}

\* auth=None or a (user, password) pair
UserPass == ListV(<<"user", "secret">>)

Auths == {NoneV, UserPass}

\* endpoints=None, or overrides that replace a default and add a new name
Overrides ==
    {NoneV,
     DictV((CANCEL_ENDPOINT :> Rel(<<"stop.json">>)) @@
           ("custom" :> Rel(<<"custom.json">>)))}

\* the credentials the caller's own delegate already carries
PresetAuth == ListV(<<"caller", "token">>)

\* the heaps before any instance is constructed: the default endpoint set,
\* and the caller's own delegate, ready to be passed as client
Dicts0 == <<DEFAULT_ENDPOINTS>>

Clients0 == <<[auth |-> PresetAuth, ncalls |-> 0]>>

\* the keys and paths of a caller's later changes to an instance's map
EndpointNames == DOMAIN DEFAULT_ENDPOINTS

SetNames == {"custom"}

SetPaths == {Abs("", <<"v2", "x.json">>)}

DelNames == {CANCEL_ENDPOINT}

----------------------------------------------------------------------------
(* Spec: construction, and the caller's changes to endpoint maps.          *)

Idle == [kind |-> "idle", inst |-> 0]

Init ==
    /\ dicts = Dicts0
    /\ clients = Clients0
    /\ apis = <<>>
    /\ made = <<>>
    /\ last = Idle

\* the endpoint map of instance i
EndpointsOf(i) == dicts[apis[i].endpoints]

\* how an instance was made: the constructor's arguments and the instance
\* as the constructor returned it
Made(target, auth, endpoints, client, r) ==
    [args |-> [target |-> target, auth |-> auth, endpoints |-> endpoints,
               client |-> client],
     self |-> r.self,
     endpoints |-> r.dicts[r.self.endpoints],
     start |-> r.dicts[r.self.endpoints]]

\* api = ScrapydAPI(auth=auth, endpoints=endpoints, client=client), client
\* being None or the caller's own delegate (clients[1]); target is left to
\* its default
Construct ==
    \E target \in {DefaultTarget}, auth \in Auths, endpoints \in Overrides,
       client \in {0, 1} :
        LET r == __init__(clients, dicts, target, auth, endpoints, client) IN
        /\ Len(apis) < MaxInstances
        /\ apis' = Append(apis, r.self)
        /\ clients' = r.clients
        /\ dicts' = r.dicts
        /\ made' = Append(made, Made(target, auth, endpoints, client, r))
        /\ last' = [kind |-> "construct", inst |-> Len(apis) + 1]

\* the caller's api.endpoints[key] = path
SetEndpoint ==
    \E i \in DOMAIN apis, key \in SetNames, path \in SetPaths :
        /\ dicts' = [dicts EXCEPT ![apis[i].endpoints] = Update(@, key :> path)]
        /\ last' = [kind |-> "set", inst |-> i]
        /\ UNCHANGED <<clients, apis, made>>

\* the caller's del api.endpoints[key]
DelEndpoint ==
    \E i \in DOMAIN apis, key \in DelNames :
        /\ key \in DOMAIN EndpointsOf(i)
        /\ dicts' = [dicts EXCEPT ![apis[i].endpoints] = Remove(@, key)]
        /\ last' = [kind |-> "del", inst |-> i]
        /\ UNCHANGED <<clients, apis, made>>

Next ==
    \/ Construct
    \/ SetEndpoint
    \/ DelEndpoint

Spec == Init /\ [][Next]_vars

----------------------------------------------------------------------------
(* SpecCalls: the public operations of one instance.                       *)

Projects == {StrV("proj")}
Versions == {StrV("r1")}
Eggs == {StrV("egg-bytes")}
Jobs == {StrV("job-1")}
Spiders == {StrV("spider")}

\* what a delegate's get or post gives: it raises its own error, or returns
\* the parsed body
TransportError == [type |-> "ConnectionError", arg |-> <<"refused">>]

Body(prevstate) ==
    DictV(("status" :> StrV("ok")) @@
          ("spiders" :> ListV(<<"s1", "s2">>)) @@
          ("prevstate" :> prevstate) @@
          ("projects" :> ListV(<<"p1">>)) @@
          ("versions" :> ListV(<<"r1", "r2">>)) @@
          ("jobid" :> StrV("6487ec79947edab326d6db28a2d86511e8247444")))

Responses ==
    {Raise(TransportError),
     Return(Body(StrV("running"))),
     Return(DictV("status" :> StrV("ok"))),
     Return(NoneV)}

\* further answers to cancel: other values of prevstate
CancelResponses ==
    {Return(Body(StrV("finished"))), Return(Body(StrV("pending"))),
     Return(Body(NoneV))}

\* schedule's settings and extra keyword arguments.  The names project,
\* spider and settings are parameters of schedule, so Python never puts
\* them in **kwargs.
SettingsChoices ==
    {NoneV,
     DictV(EmptyDict),
     DictV("DOWNLOAD_DELAY" :> StrV("2")),
     DictV(("A" :> StrV("B=C")) @@ ("A=B" :> StrV("C")))}

KwargsChoices ==
    {EmptyDict,
     "priority" :> StrV("5"),
     "setting" :> StrV("LOG_LEVEL=DEBUG"),
     ("priority" :> StrV("5")) @@ ("setting" :> StrV("LOG_LEVEL=DEBUG"))}

\* One instance, constructed with any arguments; or one constructed with
\* any overrides, from whose endpoint map the caller has then deleted one
\* name ("-" for none).
InitCalls ==
    \E target \in Targets, auth \in Auths, endpoints \in Overrides, client \in {0, 1},
       removed \in {"-"} \cup EndpointNames :
        LET r == __init__(Clients0, Dicts0, target, auth, endpoints, client)
            start == Remove(r.dicts[r.self.endpoints], removed)
        IN
        /\ removed = "-" \/ (target = DefaultTarget /\ auth = NoneV /\ client = 0)
        /\ apis = <<r.self>>
        /\ clients = r.clients
        /\ dicts = [r.dicts EXCEPT ![r.self.endpoints] = start]
        /\ made = <<[Made(target, auth, endpoints, client, r) EXCEPT !.start = start]>>
        /\ last = [kind |-> "construct", inst |-> 1]

\* self of instance i, as its methods see it
Self(i) ==
    [target |-> apis[i].target, client |-> apis[i].client,
     endpoints |-> EndpointsOf(i)]

\* the delegates after the caller has cleared their record and the calls
\* have been received
Received(calls) ==
    [c \in DOMAIN clients |->
        [clients[c] EXCEPT
            !.ncalls = Cardinality({n \in DOMAIN calls : calls[n].client = c})]]

\* a faulty variant of Invoke: the operation keeps the URL it resolved as
\* the instance's target
Invoke_store_url(i, op, args, resp, r) ==
    /\ clients' = Received(r.calls)
    /\ last' = [kind |-> "call", inst |-> i, op |-> op, args |-> args,
                resp |-> IF r.calls = <<>> THEN Idle ELSE resp,
                calls |-> r.calls, out |-> r.out, again |-> last.kind = "call"]
    /\ apis' = [apis EXCEPT ![i].target =
                    IF r.calls = <<>> THEN @ ELSE r.calls[1].url]
    /\ UNCHANGED <<dicts, made>>

\* One call of a public operation on instance i: r is what the operation
\* did, given the delegate's answer resp (recorded when the delegate was
\* asked).  The operations assign to nothing of the instance.  again says
\* that an operation was called before this one.
Invoke(i, op, args, resp, r) ==
    /\ clients' = Received(r.calls)
    /\ last' = [kind |-> "call", inst |-> i, op |-> op, args |-> args,
                resp |-> IF r.calls = <<>> THEN Idle ELSE resp,
                calls |-> r.calls, out |-> r.out, again |-> last.kind = "call"]
    /\ UNCHANGED <<dicts, apis, made>>

Call_add_version ==
    \E i \in DOMAIN apis, project \in Projects, version \in Versions,
       egg \in Eggs, resp \in Responses :
        Invoke(i, "add_version",
               [project |-> project, version |-> version, egg |-> egg], resp,
               add_version(Self(i), project, version, egg, resp))

Call_cancel ==
    \E i \in DOMAIN apis, project \in Projects, job \in Jobs,
       resp \in Responses \cup CancelResponses :
        Invoke(i, "cancel", [project |-> project, job |-> job], resp,
               cancel(Self(i), project, job, resp))

Call_delete_project ==
    \E i \in DOMAIN apis, project \in Projects, resp \in Responses :
        Invoke(i, "delete_project", [project |-> project], resp,
               delete_project(Self(i), project, resp))

Call_delete_version ==
    \E i \in DOMAIN apis, project \in Projects, version \in Versions,
       resp \in Responses :
        Invoke(i, "delete_version", [project |-> project, version |-> version],
               resp, delete_version(Self(i), project, version, resp))

Call_list_jobs ==
    \E i \in DOMAIN apis, project \in Projects, resp \in Responses :
        Invoke(i, "list_jobs", [project |-> project], resp,
               list_jobs(Self(i), project, resp))

Call_list_projects ==
    \E i \in DOMAIN apis, resp \in Responses :
        Invoke(i, "list_projects", EmptyDict, resp, list_projects(Self(i), resp))

Call_list_spiders ==
    \E i \in DOMAIN apis, project \in Projects, resp \in Responses :
        Invoke(i, "list_spiders", [project |-> project], resp,
               list_spiders(Self(i), project, resp))

Call_list_versions ==
    \E i \in DOMAIN apis, project \in Projects, resp \in Responses :
        Invoke(i, "list_versions", [project |-> project], resp,
               list_versions(Self(i), project, resp))

Call_schedule ==
    \E i \in DOMAIN apis, project \in Projects, spider \in Spiders,
       settings \in SettingsChoices, kwargs \in KwargsChoices, resp \in Responses :
        \E order \in Orders(settings.d) :
            Invoke(i, "schedule",
                   [project |-> project, spider |-> spider, settings |-> settings,
                    kwargs |-> kwargs, order |-> order], resp,
                   schedule(Self(i), project, spider, settings, kwargs, order, resp))

NextCalls ==
    \/ Call_add_version
    \/ Call_cancel
    \/ Call_delete_project
    \/ Call_delete_version
    \/ Call_list_jobs
    \/ Call_list_projects
    \/ Call_list_spiders
    \/ Call_list_versions
    \/ Call_schedule

SpecCalls == InitCalls /\ [][NextCalls]_vars

----------------------------------------------------------------------------
(* The claims.  The tables below are the claims' own: the endpoint name,   *)
(* the HTTP verb and the response field each public operation is said to   *)
(* use.                                                                    *)

Operations ==
    {"add_version", "cancel", "delete_project", "delete_version", "list_jobs",
     "list_projects", "list_spiders", "list_versions", "schedule"}

OpEndpoint ==
    ("add_version" :> ADD_VERSION_ENDPOINT) @@
    ("cancel" :> CANCEL_ENDPOINT) @@
    ("delete_project" :> DELETE_PROJECT_ENDPOINT) @@
    ("delete_version" :> DELETE_VERSION_ENDPOINT) @@
    ("list_jobs" :> LIST_JOBS_ENDPOINT) @@
    ("list_projects" :> LIST_PROJECTS_ENDPOINT) @@
    ("list_spiders" :> LIST_SPIDERS_ENDPOINT) @@
    ("list_versions" :> LIST_VERSIONS_ENDPOINT) @@
    ("schedule" :> SCHEDULE_ENDPOINT)

OpVerb ==
    [op \in Operations |->
        IF op \in {"list_jobs", "list_projects", "list_spiders", "list_versions"}
        THEN "get" ELSE "post"]

OpField ==
    ("add_version" :> "spiders") @@
    ("cancel" :> "prevstate") @@
    ("list_projects" :> "projects") @@
    ("list_spiders" :> "spiders") @@
    ("list_versions" :> "versions") @@
    ("schedule" :> "jobid")

\* the latest step was a call of a public operation
Called == last.kind = "call"

\* ... whose endpoint name was in the instance's endpoint map
Resolved == Called /\ OpEndpoint[last.op] \in DOMAIN EndpointsOf(last.inst)

\* the calls every delegate has received in the latest step
NoDelegateCall == \A c \in DOMAIN clients : clients[c].ncalls = 0

\* C1: a public operation whose endpoint name is absent from the instance's
\* endpoint map fails with a ValueError whose message names that endpoint,
\* and no delegate has received a get or a post from it.
C1_UnknownEndpoint ==
    (Called /\ OpEndpoint[last.op] \notin DOMAIN EndpointsOf(last.inst)) =>
        /\ last.out.kind = "raise"
        /\ last.out.exc.type = "ValueError"
        /\ OpEndpoint[last.op] \in Range(last.out.exc.arg)
        /\ last.calls = <<>>
        /\ NoDelegateCall

C1_Witness ==
    /\ Called
    /\ last.op = "list_versions"
    /\ LIST_VERSIONS_ENDPOINT \notin DOMAIN EndpointsOf(last.inst)
    /\ last.out = Raise(ValueError(LIST_VERSIONS_ENDPOINT))

\* C2: a public operation whose endpoint name is in the endpoint map makes
\* exactly one call on the instance's delegate, also when that call fails or
\* the answer lacks the expected field: a post for add_version, cancel,
\* delete_project, delete_version and schedule, a get for the list
\* operations, to the URL resolved for the operation's endpoint name.
C2_ExactlyOneCall ==
    Resolved =>
        LET i == last.inst IN
        /\ Len(last.calls) = 1
        /\ \A c \in DOMAIN clients :
              clients[c].ncalls = IF c = apis[i].client THEN 1 ELSE 0
        /\ last.calls[1].client = apis[i].client
        /\ last.calls[1].verb = OpVerb[last.op]
        /\ last.calls[1].url =
              urljoin(apis[i].target, EndpointsOf(i)[OpEndpoint[last.op]])

C2_Witness ==
    /\ Resolved
    /\ last.op = "delete_project"
    /\ last.resp = Raise(TransportError)
    /\ clients[apis[last.inst].client].ncalls = 1
    /\ last.calls[1].url = Abs("http://host:6800", <<"api", "delproject.json">>)

\* C3: right after construction the instance's endpoint map is the default
\* map with the overrides on top: every key of the overrides holds the
\* override's path, every default key not overridden holds the default
\* path, and there is no other key.
C3_OverridesMerged ==
    last.kind = "construct" =>
        LET eps == EndpointsOf(last.inst)
            given == made[last.inst].args.endpoints
            over == IF given.kind = "none" THEN EmptyDict ELSE given.d
        IN /\ DOMAIN eps = DOMAIN DEFAULT_ENDPOINTS \cup DOMAIN over
           /\ \A k \in DOMAIN over : eps[k] = over[k]
           /\ \A k \in DOMAIN DEFAULT_ENDPOINTS \ DOMAIN over :
                 eps[k] = DEFAULT_ENDPOINTS[k]

\* the second instance is made with overrides after the first one's map
\* was changed
C3_Witness ==
    /\ last.kind = "construct"
    /\ last.inst = 2
    /\ EndpointsOf(1) # made[1].endpoints
    /\ made[2].args.endpoints.kind = "dict"
    /\ EndpointsOf(2)[CANCEL_ENDPOINT] = Rel(<<"stop.json">>)
    /\ EndpointsOf(2)[SCHEDULE_ENDPOINT] = Rel(<<"schedule.json">>)

\* the endpoint map of instance i after a step
EndpointsAfter(i) == dicts'[apis'[i].endpoints]

\* what a step of instance last'.inst leaves alone
C4_Frame ==
    /\ \A j \in DOMAIN apis : j # last'.inst => EndpointsAfter(j) = EndpointsOf(j)
    /\ last'.kind = "construct" =>
          \A k \in DOMAIN DEFAULT_ENDPOINTS :
              /\ k \in DOMAIN EndpointsAfter(last'.inst)
              /\ EndpointsAfter(last'.inst)[k] # DEFAULT_ENDPOINTS[k] =>
                    /\ made'[last'.inst].args.endpoints.kind = "dict"
                    /\ k \in DOMAIN made'[last'.inst].args.endpoints.d

\* C4: copy independence.  The default endpoint set never changes, and a
\* step (a construction, or the caller adding, replacing or removing a key
\* of one instance's map) leaves the endpoint map of every other instance
\* as it was; an instance constructed after such changes starts from the
\* defaults.
C4_CopyIndependence == [](dicts[1] = DEFAULT_ENDPOINTS) /\ [][C4_Frame]_vars

\* one instance's map has a key added and a key removed, the other's is as
\* it was made
C4_Witness ==
    /\ Len(apis) = 2
    /\ last.kind = "del"
    /\ last.inst = 1
    /\ "custom" \in DOMAIN EndpointsOf(1)
    /\ "custom" \notin DOMAIN made[1].endpoints
    /\ CANCEL_ENDPOINT \notin DOMAIN EndpointsOf(1)
    /\ EndpointsOf(2) = made[2].endpoints
    /\ apis[1].endpoints # apis[2].endpoints

\* C5: a public operation changes nothing of the instance: after any
\* sequence of calls target, delegate and endpoint map are those the calls
\* started with, and a call makes the request and ends the way it would as
\* the first call on the instance, given the same answer of the delegate.
C5_NoOwnState ==
    Called =>
        LET i == last.inst
            fresh == [target |-> made[i].self.target,
                      client |-> made[i].self.client,
                      endpoints |-> made[i].start]
            first == Perform(last.op, fresh, last.args, last.resp)
        IN /\ apis[i] = made[i].self
           /\ EndpointsOf(i) = made[i].start
           /\ dicts[1] = DEFAULT_ENDPOINTS
           /\ last.calls = first.calls
           /\ last.out = first.out

C5_Witness ==
    /\ Called
    /\ last.again
    /\ last.op = "list_jobs"
    /\ last.out.kind = "return"
    /\ apis[last.inst].target # DefaultTarget

\* C6: schedule sends every entry of its extra keyword arguments as a
\* top-level form field with the caller's value, beside project and spider,
\* whatever the extra keys and the settings.
C6_ExtraFieldsSent ==
    (Resolved /\ last.op = "schedule") =>
        LET data == last.calls[1].data IN
        /\ "project" \in DOMAIN data /\ data["project"] = last.args.project
        /\ "spider" \in DOMAIN data /\ data["spider"] = last.args.spider
        /\ \A k \in DOMAIN last.args.kwargs :
              k \in DOMAIN data /\ data[k] = last.args.kwargs[k]

\* the strings name=value of a settings mapping, each as often as entries
\* of the mapping give it
Expected(settings, text) ==
    Cardinality({n \in DOMAIN settings : n \o "=" \o settings[n].s = text})

Occurs(q, text) == Cardinality({n \in DOMAIN q : q[n] = text})

SettingSent(data, settings) ==
    /\ "setting" \in DOMAIN data
    /\ data["setting"].kind = "list"
    /\ Len(data["setting"].items) = Cardinality(DOMAIN settings)
    /\ \A n \in DOMAIN settings :
          LET text == n \o "=" \o settings[n].s IN
          Occurs(data["setting"].items, text) = Expected(settings, text)

JobidReturned ==
    (last.resp.kind = "return" /\ last.resp.val.kind = "dict"
        /\ "jobid" \in DOMAIN last.resp.val.d) =>
            last.out = Return(last.resp.val.d["jobid"])

\* C7 as stated: whenever a settings mapping is supplied, the empty one
\* included, the form data carries the field setting holding exactly one
\* string name=value per entry; the operation returns the field jobid.
C7_SettingAlways ==
    (Resolved /\ last.op = "schedule" /\ last.args.settings.kind = "dict") =>
        /\ SettingSent(last.calls[1].data, last.args.settings.d)
        /\ JobidReturned

\* C7 as amended: for a non-empty settings mapping the form data carries
\* the field setting holding exactly one string name=value per entry (in
\* any order) and nothing else; for an empty or omitted mapping schedule
\* adds no field of its own, the form data being project, spider and the
\* extra keyword arguments; the operation returns the field jobid of the
\* answer.
C7_SettingWhenNonEmpty ==
    (Resolved /\ last.op = "schedule") =>
        LET data == last.calls[1].data
            settings == last.args.settings
        IN /\ (settings.kind = "dict" /\ DOMAIN settings.d # {}) =>
                  SettingSent(data, settings.d)
           /\ (settings.kind = "none" \/ DOMAIN settings.d = {}) =>
                  /\ DOMAIN data = {"project", "spider"} \cup DOMAIN last.args.kwargs
                  /\ \A k \in DOMAIN last.args.kwargs : data[k] = last.args.kwargs[k]
           /\ JobidReturned

C7_Witness ==
    /\ Resolved
    /\ last.op = "schedule"
    /\ Cardinality(DOMAIN last.args.settings.d) = 2
    /\ last.calls[1].data["setting"] = ListV(<<"A=B=C", "A=B=C">>)
    /\ last.out.kind = "return"
    /\ last.out.val.kind = "str"

\* C8: cancel posts the form fields project and job, and returns true when
\* the answer's prevstate is the string running and false for every other
\* prevstate; it never returns the answer itself.
C8_CancelBoolean ==
    (Resolved /\ last.op = "cancel") =>
        /\ last.calls[1].verb = "post"
        /\ last.calls[1].data =
              ("project" :> last.args.project) @@ ("job" :> last.args.job)
        /\ (last.resp.kind = "return" /\ last.resp.val.kind = "dict"
               /\ "prevstate" \in DOMAIN last.resp.val.d) =>
                  LET prevstate == last.resp.val.d["prevstate"] IN
                  IF prevstate.kind = "str" /\ prevstate.s = "running"
                  THEN last.out = Return(BoolV(TRUE))
                  ELSE last.out = Return(BoolV(FALSE))
        /\ last.out.kind = "return" => last.out.val.kind = "bool"

C8_Witness ==
    /\ Resolved
    /\ last.op = "cancel"
    /\ last.resp = Return(Body(StrV("finished")))
    /\ last.out = Return(BoolV(FALSE))

\* C9: when the delegate's call fails the operation ends with that same
\* failure and returns nothing (delete_project and delete_version return
\* true only when the post returned); when the body the delegate returns
\* lacks the field the operation extracts, the operation fails with a
\* KeyError; in neither case is a second call made.
C9_FailuresSurface ==
    Resolved =>
        /\ last.resp.kind = "raise" =>
              /\ last.out = last.resp
              /\ Len(last.calls) = 1
        /\ (last.op \in {"delete_project", "delete_version"}
               /\ last.out.kind = "return") =>
                  /\ last.out.val = BoolV(TRUE)
                  /\ last.resp.kind = "return"
        /\ (last.op \in DOMAIN OpField /\ last.resp.kind = "return"
               /\ last.resp.val.kind = "dict"
               /\ OpField[last.op] \notin DOMAIN last.resp.val.d) =>
                  /\ last.out.kind = "raise"
                  /\ last.out.exc.type = "KeyError"
                  /\ Len(last.calls) = 1

C9_Witness ==
    /\ Resolved
    /\ last.op = "list_spiders"
    /\ last.resp = Return(DictV("status" :> StrV("ok")))
    /\ last.out = Raise(KeyError("spiders"))
    /\ clients[apis[last.inst].client].ncalls = 1

\* C10: construction calls no delegate; the credentials go only to the
\* default delegate the constructor creates; an injected delegate is the
\* one every later call goes to, and its credentials stay as the caller set
\* them, whatever auth is passed.
C10_InjectedDelegate ==
    LET args == made[1].args IN
    /\ last.kind = "construct" => NoDelegateCall
    /\ clients[1].auth = PresetAuth
    /\ args.client = 0 =>
          /\ Len(clients) = 2
          /\ apis[1].client = 2
          /\ clients[2].auth = args.auth
    /\ args.client = 1 =>
          /\ Len(clients) = 1
          /\ apis[1].client = 1
    /\ Called => \A n \in DOMAIN last.calls : last.calls[n].client = apis[1].client

C10_Witness ==
    /\ Called
    /\ made[1].args.client = 1
    /\ made[1].args.auth = UserPass
    /\ last.calls # <<>>
    /\ last.calls[1].client = 1
    /\ clients[1] = [auth |-> PresetAuth, ncalls |-> 1]

====
